---- MODULE Spec2Model ----
(***************************************************************************)
(* Model of 代码结构阅读器.py: a Qt widget (FileDropWidget) that starts one   *)
(* FileProcessThread per dropped path.  Each thread builds a tree listing,  *)
(* walks the files of the path and posts update/finished signals, which the *)
(* GUI thread handles one at a time from its event queue.                   *)
(*                                                                          *)
(* File names are sequences of one-character strings, so that splitext and  *)
(* lower() are computed character by character; a path is the sequence of   *)
(* its components.  Texts (file contents, tree, rendered view) are strings. *)
(***************************************************************************)
EXTENDS Integers, Sequences, FiniteSets, TLC

VARIABLES
    walkers,         \* the FileProcessThread instances, in creation order
    queue,           \* signals queued to the GUI thread, oldest first
    files_content,   \* FileDropWidget.files_content
    file_structure,  \* FileDropWidget.file_structure
    process_thread,  \* FileDropWidget.process_thread (index in walkers, 0 = None)
    textEdit,        \* text shown by the QTextEdit
    fileListWidget,  \* items of the QListWidget
    copyButton,      \* enabled flag of each button
    saveButton,
    resetButton,
    progressBar,     \* "initial" | "busy" | "done"
    clipboard,       \* text last put on the clipboard
    saved,           \* text last written by saveContent
    lastOp,          \* history: the GUI handler that ran last
    handled,         \* history: update signals handled since the last reset
    inflightAtReset  \* history: walkers that had not completed at the last reset

vars == <<walkers, queue, files_content, file_structure, process_thread,
          textEdit, fileListWidget, copyButton, saveButton, resetButton,
          progressBar, clipboard, saved, lastOp, handled, inflightAtReset>>

-----------------------------------------------------------------------------
(* Bounds of the model *)

\* FileProcessThread.max_files (1000 in the source), scaled down; the
\* directories below are sized relative to it.
max_files == 3

\* FileProcessThread.max_depth
max_depth == 5

\* number of FileProcessThread instances created in one run of the model
MaxWalkers == 2

\* number of urls carried by one drop
MaxUrls == 2

\* the directory trees under /t: longest spine of nested directories above
\* the fork, and longest chain of nested directories in each branch below it
MaxSpine == 4
MaxChain == 3

-----------------------------------------------------------------------------
(* Characters and strings *)

UpperChars == <<"A", "B", "C", "D", "E", "F", "G", "H", "I", "J", "K", "L", "M",
                "N", "O", "P", "Q", "R", "S", "T", "U", "V", "W", "X", "Y", "Z">>
LowerChars == <<"a", "b", "c", "d", "e", "f", "g", "h", "i", "j", "k", "l", "m",
                "n", "o", "p", "q", "r", "s", "t", "u", "v", "w", "x", "y", "z">>

\* str.lower() on one character
LowerChar(c) ==
    IF \E i \in 1..Len(UpperChars) : UpperChars[i] = c
    THEN LowerChars[CHOOSE i \in 1..Len(UpperChars) : UpperChars[i] = c]
    ELSE c

\* str.lower()
lower(s) == [i \in 1..Len(s) |-> LowerChar(s[i])]

\* the Python str made of the characters cs
RECURSIVE Str(_)
Str(cs) == IF cs = <<>> THEN "" ELSE Head(cs) \o Str(Tail(cs))

\* s * n
RECURSIVE Repeat(_, _)
Repeat(s, n) == IF n <= 0 THEN "" ELSE s \o Repeat(s, n - 1)

\* sep.join(lines)
RECURSIVE Join(_, _)
Join(sep, lines) ==
    IF lines = <<>> THEN ""
    ELSE IF Len(lines) = 1 THEN lines[1]
    ELSE lines[1] \o sep \o Join(sep, Tail(lines))

\* str.rfind('.') as a 1-based index, 0 when there is no dot
RECURSIVE RFindDot(_, _)
RFindDot(s, i) ==
    IF i = 0 THEN 0
    ELSE IF s[i] = "." THEN i
    ELSE RFindDot(s, i - 1)

\* os.path.splitext(name)[1] for a name without separators: the part from
\* the last dot on, unless only dots precede that dot
splitext(name) ==
    LET dotIndex == RFindDot(name, Len(name))
    IN  IF dotIndex > 0 /\ \E k \in 1..(dotIndex - 1) : name[k] # "."
        THEN SubSeq(name, dotIndex, Len(name))
        ELSE <<>>

\* os.path.basename(path)
basename(path) == path[Len(path)]

\* os.path.dirname(path)
dirname(path) == SubSeq(path, 1, Len(path) - 1)

\* os.path.join(root, file)
join(root, file) == Append(root, file)

\* the text of a path, as str(path) shows it
RECURSIVE PathStr(_)
PathStr(path) ==
    IF path = <<>> THEN "" ELSE "/" \o Str(Head(path)) \o PathStr(Tail(path))

-----------------------------------------------------------------------------
(* The file system the walks read: three droppable paths under /w.          *)
(*   /w/solo.txt   a regular file                                           *)
(*   /w/proj       three files in all, one of them below max_depth          *)
(*   /w/many       max_files files (the first is named .png), an empty      *)
(*                 directory e, and a directory s with two more files       *)

Digits == <<"1", "2", "3", "4", "5", "6", "7", "8", "9">>

n_w    == <<"w">>
n_solo == <<"s", "o", "l", "o", ".", "t", "x", "t">>
n_proj == <<"p", "r", "o", "j">>
n_many == <<"m", "a", "n", "y">>
n_logo == <<"L", ".", "P", "N", "G">>
n_raw  == <<"r", ".", "d", "a", "t">>
n_deep == <<"z", ".", "t", "x", "t">>
n_dot  == <<".", "p", "n", "g">>
n_jpg  == <<"x", ".", "j", "p", "g">>
n_e    == <<"e">>
n_s    == <<"s">>
n_d(i) == <<"d", Digits[i]>>
n_num(i) == <<Digits[i]>>

p_solo == <<n_w, n_solo>>
p_proj == <<n_w, n_proj>>
p_many == <<n_w, n_many>>

\* /w/proj/d1/.../dk
RECURSIVE p_chain(_)
p_chain(k) == IF k = 0 THEN p_proj ELSE Append(p_chain(k - 1), n_d(k))

\* the droppable paths
Roots == {p_solo, p_proj, p_many}

\* the directories
DirPaths == {p_chain(k) : k \in 0..max_depth}
            \cup {p_many, Append(p_many, n_e), Append(p_many, n_s)}

(* A family of directory trees under /t.  The tree /t/kabm (four digits) is  *)
(* a spine of k nested directories s1/s2/../sk; each spine directory lists   *)
(* the next one and, when m = 1, a file z after it.  The last spine          *)
(* directory (the root when k = 0) is the fork: it lists a1 when a > 0, then *)
(* b1 when b > 0, then z when m = 1.  a1/a2/../aa is a chain of a nested     *)
(* directories, the last holding the file x; b1/../bb likewise holds y.      *)

Digits0 == <<"0", "1", "2", "3", "4", "5", "6", "7", "8", "9">>

\* the number a digit character stands for
DigitValue(c) == CHOOSE n \in 0..9 : Digits0[n + 1] = c

n_t == <<"t">>
n_x == <<"x">>
n_y == <<"y">>
n_z == <<"z">>

TreeRoot(k, a, b, m) ==
    <<n_t, <<Digits0[k + 1], Digits0[a + 1], Digits0[b + 1], Digits0[m + 1]>>>>

\* the droppable tree roots
TreeRoots ==
    {TreeRoot(k, a, b, m) : k \in 0..MaxSpine, a \in 0..MaxChain,
                            b \in 0..MaxChain, m \in 0..1}

\* the path lies in one of the trees
IsTreePath(path) ==
    /\ Len(path) >= 2
    /\ path[1] = n_t
    /\ <<path[1], path[2]>> \in TreeRoots

\* the parameters of the tree a path lies in
Shape(path) ==
    [k |-> DigitValue(path[2][1]), a |-> DigitValue(path[2][2]),
     b |-> DigitValue(path[2][3]), m |-> DigitValue(path[2][4])]

\* c1/c2/../cn
Chain(c, n) == [i \in 1..n |-> <<c, Digits[i]>>]

\* the directories of the trees
TreeIsDir(path) ==
    /\ IsTreePath(path)
    /\ LET sh  == Shape(path)
           rel == SubSeq(path, 3, Len(path))
           n   == Len(rel)
       IN  \/ n <= sh.k /\ rel = Chain("s", n)
           \/ /\ n > sh.k
              /\ n - sh.k <= sh.a
              /\ rel = Chain("s", sh.k) \o Chain("a", n - sh.k)
           \/ /\ n > sh.k
              /\ n - sh.k <= sh.b
              /\ rel = Chain("s", sh.k) \o Chain("b", n - sh.k)

\* the entries of a directory of the trees, in listing order
TreeEntries(path) ==
    LET sh  == Shape(path)
        rel == SubSeq(path, 3, Len(path))
        n   == Len(rel)
        z   == IF sh.m = 1 THEN <<n_z>> ELSE <<>>
    IN  IF n < sh.k THEN <<<<"s", Digits[n + 1]>>>> \o z
        ELSE IF n = sh.k
        THEN (IF sh.a > 0 THEN <<<<"a", Digits[1]>>>> ELSE <<>>)
                 \o (IF sh.b > 0 THEN <<<<"b", Digits[1]>>>> ELSE <<>>) \o z
        ELSE IF rel[n][1] = "a"
        THEN IF n - sh.k < sh.a THEN <<<<"a", Digits[n - sh.k + 1]>>>> ELSE <<n_x>>
        ELSE IF n - sh.k < sh.b THEN <<<<"b", Digits[n - sh.k + 1]>>>> ELSE <<n_y>>

\* os.path.isdir / DirEntry.is_dir
is_dir(path) == path \in DirPaths \/ TreeIsDir(path)

\* names of the entries of a directory, in the order os.scandir lists them
scandir(path) ==
    IF path = p_proj THEN <<n_d(1), n_logo>>
    ELSE IF path = p_chain(1) THEN <<n_raw, n_d(2)>>
    ELSE IF path = p_chain(max_depth) THEN <<n_deep>>
    ELSE IF \E k \in 2..(max_depth - 1) : path = p_chain(k)
         THEN <<n_d(Len(path) - Len(p_proj) + 1)>>
    ELSE IF path = p_many
         THEN [i \in 1..max_files |-> IF i = 1 THEN n_dot ELSE n_num(i)]
              \o <<n_e, n_s>>
    ELSE IF path = Append(p_many, n_s) THEN <<n_jpg, n_num(1)>>
    ELSE IF TreeIsDir(path) THEN TreeEntries(path)
    ELSE <<>>

\* what open(path, 'r', encoding='utf-8').read() does: the text, or the
\* message of the exception it raises
read(path) ==
    IF basename(path) = n_raw
    THEN [ok |-> FALSE,
          text |-> "'utf-8' codec can't decode byte 0xff in position 0: invalid start byte"]
    ELSE IF basename(path) = n_logo \/ basename(path) = n_jpg
    THEN [ok |-> FALSE,
          text |-> "'utf-8' codec can't decode byte 0x89 in position 0: invalid start byte"]
    ELSE [ok |-> TRUE, text |-> "text of " \o Str(basename(path))]

-----------------------------------------------------------------------------
(* FileProcessThread *)

\* FileProcessThread.skip_extensions
skip_extensions ==
    { <<".", "p", "n", "g">>, <<".", "j", "p", "g">>, <<".", "j", "p", "e", "g">>,
      <<".", "g", "i", "f">>, <<".", "b", "m", "p">>, <<".", "m", "p", "3">>,
      <<".", "m", "p", "4">>, <<".", "a", "v", "i">>, <<".", "m", "o", "v">>,
      <<".", "p", "d", "f">>, <<".", "d", "o", "c">>, <<".", "d", "o", "c", "x">>,
      <<".", "x", "l", "s">>, <<".", "x", "l", "s", "x">>, <<".", "p", "p", "t">>,
      <<".", "p", "p", "t", "x">> }

\* update_signal.emit(name, content, type) of walker w, as queued to the GUI
UpdateSignal(w, name, content, type) ==
    [w |-> w, sig |-> "update", name |-> name, content |-> content, type |-> type]

\* finished_signal.emit() of walker w
FinishedSignal(w) ==
    [w |-> w, sig |-> "finished", name |-> "", content |-> "", type |-> ""]

\* the text process_file sends for a skipped file (a fixed Chinese message,
\* "this file type is skipped"), in ASCII
SKIP_MESSAGE == "skipped file type"

\* the box-drawing prefixes of print_directory, in ASCII: ELBOW is U+2514
\* U+2500 U+2500 and a space, TEE is U+251C U+2500 U+2500 and a space, PIPE
\* is U+2502 and three spaces
ELBOW == "+-- "
TEE   == "|-- "
PIPE  == "|   "

\* get_file_structure.print_directory and its loop over the entries; st holds
\* the closure's output list, its shared max_depth counter, and whether
\* os.scandir raised; st.entered logs each call of print_directory with the
\* value the counter has when the call is made
RECURSIVE print_directory(_, _, _)
RECURSIVE print_entries(_, _, _, _)
RECURSIVE print_entries_no_restore(_, _, _, _)
RECURSIVE print_entries_blank_extension(_, _, _, _)

\* the loop without the max_depth += 1 after the recursive call
print_entries_no_restore(path, prefix, i, st) ==
    LET contents == scandir(path)
    IN  IF i > Len(contents) \/ st.raised THEN st
        ELSE
          LET entry   == contents[i]
              is_last == (i = Len(contents))
              line    == prefix \o (IF is_last THEN ELBOW ELSE TEE) \o Str(entry)
              st1     == [st EXCEPT !.output = Append(@, line)]
          IN  IF is_dir(join(path, entry))
              THEN LET extension == IF is_last THEN "    " ELSE PIPE
                       st2 == [st1 EXCEPT !.max_depth = @ - 1]
                       st3 == IF st2.max_depth > 0
                              THEN print_directory(join(path, entry),
                                                   prefix \o extension, st2)
                              ELSE st2
                   IN  print_entries_no_restore(path, prefix, i + 1, st3)
              ELSE print_entries_no_restore(path, prefix, i + 1, st1)

\* the loop extending the prefix with blanks under every directory
print_entries_blank_extension(path, prefix, i, st) ==
    LET contents == scandir(path)
    IN  IF i > Len(contents) \/ st.raised THEN st
        ELSE
          LET entry   == contents[i]
              is_last == (i = Len(contents))
              line    == prefix \o (IF is_last THEN ELBOW ELSE TEE) \o Str(entry)
              st1     == [st EXCEPT !.output = Append(@, line)]
          IN  IF is_dir(join(path, entry))
              THEN LET extension == "    "
                       st2 == [st1 EXCEPT !.max_depth = @ - 1]
                       st3 == IF st2.max_depth > 0
                              THEN print_directory(join(path, entry),
                                                   prefix \o extension, st2)
                              ELSE st2
                       st4 == [st3 EXCEPT !.max_depth = @ + 1]
                   IN  print_entries_blank_extension(path, prefix, i + 1, st4)
              ELSE print_entries_blank_extension(path, prefix, i + 1, st1)

print_directory(path, prefix, st) ==
    LET st0 == [st EXCEPT !.entered = Append(@, <<path, st.max_depth>>)]
    IN  IF st0.max_depth <= 0 THEN st0
        ELSE IF ~is_dir(path) THEN [st0 EXCEPT !.raised = TRUE]
        ELSE print_entries(path, prefix, 1, st0)

print_entries(path, prefix, i, st) ==
    LET contents == scandir(path)
    IN  IF i > Len(contents) \/ st.raised THEN st
        ELSE
          LET entry   == contents[i]
              is_last == (i = Len(contents))
              line    == prefix \o (IF is_last THEN ELBOW ELSE TEE) \o Str(entry)
              st1     == [st EXCEPT !.output = Append(@, line)]
          IN  IF is_dir(join(path, entry))
              THEN LET extension == IF is_last THEN "    " ELSE PIPE
                       st2 == [st1 EXCEPT !.max_depth = @ - 1]
                       st3 == IF st2.max_depth > 0
                              THEN print_directory(join(path, entry),
                                                   prefix \o extension, st2)
                              ELSE st2
                       st4 == [st3 EXCEPT !.max_depth = @ + 1]
                   IN  print_entries(path, prefix, i + 1, st4)
              ELSE print_entries(path, prefix, i + 1, st1)

\* get_file_structure starting the counter one above max_depth
get_file_structure_deeper(start_path) ==
    LET st0 == [output |-> <<Str(basename(start_path))>>,
                max_depth |-> max_depth + 1, raised |-> FALSE, entered |-> <<>>]
        st  == print_directory(start_path, "", st0)
    IN  [raised |-> st.raised, text |-> Join("\n", st.output),
         lines |-> st.output, entered |-> st.entered]

\* FileProcessThread.get_file_structure: the tree text, or raised when
\* os.scandir is given a path that is no directory (NotADirectoryError);
\* lines is the output list the text is joined from
get_file_structure(start_path) ==
    LET st0 == [output |-> <<Str(basename(start_path))>>,
                max_depth |-> max_depth, raised |-> FALSE, entered |-> <<>>]
        st  == print_directory(start_path, "", st0)
    IN  [raised |-> st.raised, text |-> Join("\n", st.output),
         lines |-> st.output, entered |-> st.entered]

\* process_file comparing the extension as written, without lower()
process_file_case_sensitive(w, file_path) ==
    LET file_name      == basename(file_path)
        file_extension == splitext(file_name)
        r              == read(file_path)
    IN  IF file_extension \in skip_extensions
        THEN [event  |-> UpdateSignal(w, Str(file_name), SKIP_MESSAGE, "skipped"),
              opened |-> FALSE]
        ELSE IF r.ok
        THEN [event |-> UpdateSignal(w, Str(file_name), r.text, "file"), opened |-> TRUE]
        ELSE [event |-> UpdateSignal(w, Str(file_name),
                            "Error reading " \o PathStr(file_path) \o ": " \o r.text,
                            "error"),
              opened |-> TRUE]

\* process_file reporting a read failure with the exception text alone
process_file_bare_error(w, file_path) ==
    LET file_name      == basename(file_path)
        file_extension == splitext(file_name)
        r              == read(file_path)
    IN  IF lower(file_extension) \in skip_extensions
        THEN [event  |-> UpdateSignal(w, Str(file_name), SKIP_MESSAGE, "skipped"),
              opened |-> FALSE]
        ELSE IF r.ok
        THEN [event |-> UpdateSignal(w, Str(file_name), r.text, "file"), opened |-> TRUE]
        ELSE [event |-> UpdateSignal(w, Str(file_name), r.text, "error"),
              opened |-> TRUE]

\* FileProcessThread.process_file: the signal it emits and whether it opened
\* the file
process_file(w, file_path) ==
    LET file_name      == basename(file_path)
        file_extension == splitext(file_name)
    IN  IF lower(file_extension) \in skip_extensions
        THEN [event  |-> UpdateSignal(w, Str(file_name), SKIP_MESSAGE, "skipped"),
              opened |-> FALSE]
        ELSE LET r == read(file_path)
             IN  IF r.ok
                 THEN [event  |-> UpdateSignal(w, Str(file_name), r.text, "file"),
                       opened |-> TRUE]
                 ELSE [event  |-> UpdateSignal(w, Str(file_name),
                                      "Error reading " \o PathStr(file_path)
                                          \o ": " \o r.text,
                                      "error"),
                       opened |-> TRUE]

\* a walk that lists the top directory only, as os.listdir would
walk_top_only(top) ==
    LET ents == scandir(top)
    IN  <<[root  |-> top,
           dirs  |-> SelectSeq(ents, LAMBDA n : is_dir(join(top, n))),
           files |-> SelectSeq(ents, LAMBDA n : ~is_dir(join(top, n)))]>>

\* the (root, dirs, files) triples os.walk(top) yields, top-down
RECURSIVE walk(_)
RECURSIVE walk_each(_, _)
walk(top) ==
    LET ents  == scandir(top)
        dirs  == SelectSeq(ents, LAMBDA n : is_dir(join(top, n)))
        files == SelectSeq(ents, LAMBDA n : ~is_dir(join(top, n)))
    IN  <<[root |-> top, dirs |-> dirs, files |-> files]>> \o walk_each(top, dirs)

walk_each(top, dirs) ==
    IF dirs = <<>> THEN <<>>
    ELSE walk(join(top, Head(dirs))) \o walk_each(top, Tail(dirs))

\* the two nested for loops of process_directory, advanced to the next file:
\* di triples have been yielded and fi files of triple di iterated
RECURSIVE next_file(_, _, _)
next_file(triples, di, fi) ==
    IF di >= 1 /\ di <= Len(triples) /\ fi < Len(triples[di].files)
    THEN [found |-> TRUE, di |-> di, fi |-> fi + 1]
    ELSE IF di >= Len(triples)
    THEN [found |-> FALSE, di |-> Len(triples), fi |-> fi + 1]
    ELSE next_file(triples, di + 1, 0)

\* FileProcessThread.__init__ followed by start()
NewWalker(path) ==
    [path |-> path, pc |-> "run", file_count |-> 0, di |-> 0, fi |-> 0,
     out |-> <<>>, visited |-> <<>>, opened |-> <<>>]

\* FileProcessThread.run up to its branch on os.path.isdir: the tree is
\* built and emitted; an exception of get_file_structure ends the thread
\* with nothing emitted.  A path that is no directory is processed here.
Run(w) ==
    /\ walkers[w].pc = "run"
    /\ LET self == walkers[w]
           fs   == get_file_structure(self.path)
           ev   == UpdateSignal(w, "structure", fs.text, "structure")
       IN  IF fs.raised
           THEN /\ walkers' = [walkers EXCEPT ![w].pc = "raised"]
                /\ UNCHANGED queue
           ELSE IF is_dir(self.path)
           THEN /\ walkers' = [walkers EXCEPT ![w].pc = "walk",
                                              ![w].out = Append(@, ev)]
                /\ queue' = Append(queue, ev)
           ELSE LET r == process_file(w, self.path)
                IN  /\ walkers' = [walkers EXCEPT
                          ![w].pc = "finish",
                          ![w].out = @ \o <<ev, r.event>>,
                          ![w].visited = Append(@, self.path),
                          ![w].opened = IF r.opened THEN Append(@, self.path) ELSE @]
                    /\ queue' = queue \o <<ev, r.event>>
    /\ UNCHANGED <<files_content, file_structure, process_thread, textEdit,
                   fileListWidget, copyButton, saveButton, resetButton,
                   progressBar, clipboard, saved, lastOp, handled, inflightAtReset>>

\* FileProcessThread.process_directory, called by run with depth = 0: one
\* iteration of the inner loop, from the previous file to the next one
\* os.walk reaches, or the return
process_directory(w) ==
    /\ walkers[w].pc = "walk"
    /\ LET self    == walkers[w]
           triples == walk(self.path)
           nxt     == next_file(triples, self.di, self.fi)
           depth   == 0
       IN  IF depth > max_depth \/ ~nxt.found \/ self.file_count >= max_files
           THEN /\ walkers' = [walkers EXCEPT ![w].pc = "finish",
                                              ![w].di = nxt.di,
                                              ![w].fi = nxt.fi - 1]
                /\ UNCHANGED queue
           ELSE LET file_path == join(triples[nxt.di].root, triples[nxt.di].files[nxt.fi])
                    r         == process_file(w, file_path)
                IN  /\ walkers' = [walkers EXCEPT
                          ![w].di = nxt.di,
                          ![w].fi = nxt.fi,
                          ![w].file_count = @ + 1,
                          ![w].out = Append(@, r.event),
                          ![w].visited = Append(@, file_path),
                          ![w].opened = IF r.opened THEN Append(@, file_path) ELSE @]
                    /\ queue' = Append(queue, r.event)
    /\ UNCHANGED <<files_content, file_structure, process_thread, textEdit,
                   fileListWidget, copyButton, saveButton, resetButton,
                   progressBar, clipboard, saved, lastOp, handled, inflightAtReset>>

\* the last statement of FileProcessThread.run
EmitFinished(w) ==
    /\ walkers[w].pc = "finish"
    /\ walkers' = [walkers EXCEPT ![w].pc = "done",
                                  ![w].out = Append(@, FinishedSignal(w))]
    /\ queue' = Append(queue, FinishedSignal(w))
    /\ UNCHANGED <<files_content, file_structure, process_thread, textEdit,
                   fileListWidget, copyButton, saveButton, resetButton,
                   progressBar, clipboard, saved, lastOp, handled, inflightAtReset>>

-----------------------------------------------------------------------------
(* FileDropWidget *)

\* the fixed labels of update_text_edit (Chinese in the source: "file
\* structure:", "file contents:", "file name: "), in ASCII
STRUCTURE_LABEL == "File structure:"
CONTENT_LABEL   == "File contents:"
NAME_LABEL      == "File name: "

\* the for loop of update_text_edit, from record i on
RECURSIVE text_loop(_, _, _)
text_loop(full_content, fc, i) ==
    IF i > Len(fc) THEN full_content
    ELSE LET name    == fc[i][1]
             content == fc[i][2]
             c1 == full_content \o Repeat("=", 50) \o "\n"
             c2 == c1 \o NAME_LABEL \o name \o "\n"
             c3 == c2 \o Repeat("-", 50) \o "\n"
             c4 == c3 \o content \o "\n\n"
         IN  text_loop(c4, fc, i + 1)

\* update_text_edit keeping only the block of the last record, as an
\* assignment in place of += would
update_text_edit_last_only(structure, fc) ==
    LET c0 == STRUCTURE_LABEL \o "\n" \o structure \o "\n\n"
        c1 == c0 \o CONTENT_LABEL \o "\n"
    IN  text_loop(c1, fc, IF Len(fc) > 1 THEN Len(fc) ELSE 1)

\* FileDropWidget.update_text_edit: the text it gives to textEdit.setText
update_text_edit(structure, fc) ==
    LET c0 == STRUCTURE_LABEL \o "\n" \o structure \o "\n\n"
        c1 == c0 \o CONTENT_LABEL \o "\n"
    IN  text_loop(c1, fc, 1)

\* the walkers whose run() has neither returned nor raised
Running == {w \in DOMAIN walkers : walkers[w].pc \notin {"done", "raised"}}

\* FileDropWidget.__init__
Init ==
    /\ walkers = <<>>
    /\ queue = <<>>
    /\ files_content = <<>>
    /\ file_structure = ""
    /\ process_thread = 0
    /\ textEdit = ""
    /\ fileListWidget = <<>>
    /\ copyButton = TRUE
    /\ saveButton = TRUE
    /\ resetButton = TRUE
    /\ progressBar = "initial"
    /\ clipboard = ""
    /\ saved = [name |-> "", text |-> ""]
    /\ lastOp = [op |-> "init", w |-> 0, had |-> 0]
    /\ handled = <<>>
    /\ inflightAtReset = {}

\* dropEvent starting from a cleared session, as a reset before the walk would
dropEvent_clears(urls) ==
    /\ Len(walkers) + Len(urls) <= MaxWalkers
    /\ walkers' = walkers \o [i \in 1..Len(urls) |-> NewWalker(urls[i])]
    /\ process_thread' = Len(walkers) + Len(urls)
    /\ copyButton' = FALSE
    /\ saveButton' = FALSE
    /\ resetButton' = FALSE
    /\ progressBar' = "busy"
    /\ files_content' = <<>>
    /\ file_structure' = ""
    /\ textEdit' = ""
    /\ fileListWidget' = <<>>
    /\ lastOp' = [op |-> "drop", w |-> Len(walkers) + Len(urls), had |-> Len(urls)]
    /\ UNCHANGED <<queue, clipboard, saved, handled, inflightAtReset>>

\* FileDropWidget.dropEvent: one walker is created and started per url.  The
\* signals of a walker are emitted in its own thread, so each is queued to
\* the GUI thread, which runs the connected slot when it takes the signal
\* from its queue.
dropEvent(urls) ==
    /\ Len(walkers) + Len(urls) <= MaxWalkers
    /\ walkers' = walkers \o [i \in 1..Len(urls) |-> NewWalker(urls[i])]
    /\ process_thread' = Len(walkers) + Len(urls)
    /\ copyButton' = FALSE
    /\ saveButton' = FALSE
    /\ resetButton' = FALSE
    /\ progressBar' = "busy"
    /\ lastOp' = [op |-> "drop", w |-> Len(walkers) + Len(urls), had |-> Len(urls)]
    /\ UNCHANGED <<queue, files_content, file_structure, textEdit, fileListWidget,
                   clipboard, saved, handled, inflightAtReset>>

\* update_content accumulating the record of every per-file signal, whatever
\* its type
update_content_accumulates_all ==
    /\ queue # <<>>
    /\ Head(queue).sig = "update"
    /\ LET ev           == Head(queue)
           name         == ev.name
           content      == ev.content
           content_type == ev.type
       IN  /\ file_structure' = IF content_type = "structure" THEN content
                                ELSE file_structure
           /\ files_content' = IF content_type # "structure"
                               THEN Append(files_content, <<name, content>>)
                               ELSE files_content
           /\ fileListWidget' =
                 IF content_type = "file" THEN Append(fileListWidget, name)
                 ELSE IF content_type = "error"
                      THEN Append(fileListWidget, "Error: " \o name)
                 ELSE IF content_type = "skipped"
                      THEN Append(fileListWidget, "Skipped: " \o name)
                 ELSE fileListWidget
           /\ textEdit' = update_text_edit(file_structure', files_content')
           /\ lastOp' = [op |-> "update", w |-> ev.w, had |-> Len(handled)]
           /\ handled' = Append(handled, ev)
    /\ queue' = Tail(queue)
    /\ UNCHANGED <<walkers, process_thread, copyButton, saveButton, resetButton,
                   progressBar, clipboard, saved, inflightAtReset>>

\* update_content listing skipped and failed files under their bare names
update_content_no_prefix ==
    /\ queue # <<>>
    /\ Head(queue).sig = "update"
    /\ LET ev           == Head(queue)
           name         == ev.name
           content      == ev.content
           content_type == ev.type
       IN  /\ file_structure' = IF content_type = "structure" THEN content
                                ELSE file_structure
           /\ files_content' = IF content_type = "file"
                               THEN Append(files_content, <<name, content>>)
                               ELSE files_content
           /\ fileListWidget' =
                 IF content_type \in {"file", "error", "skipped"}
                 THEN Append(fileListWidget, name)
                 ELSE fileListWidget
           /\ textEdit' = update_text_edit(file_structure', files_content')
           /\ lastOp' = [op |-> "update", w |-> ev.w, had |-> Len(handled)]
           /\ handled' = Append(handled, ev)
    /\ queue' = Tail(queue)
    /\ UNCHANGED <<walkers, process_thread, copyButton, saveButton, resetButton,
                   progressBar, clipboard, saved, inflightAtReset>>

\* FileDropWidget.update_content, run for the oldest queued update signal
update_content ==
    /\ queue # <<>>
    /\ Head(queue).sig = "update"
    /\ LET ev           == Head(queue)
           name         == ev.name
           content      == ev.content
           content_type == ev.type
       IN  /\ file_structure' = IF content_type = "structure" THEN content
                                ELSE file_structure
           /\ files_content' = IF content_type = "file"
                               THEN Append(files_content, <<name, content>>)
                               ELSE files_content
           /\ fileListWidget' =
                 IF content_type = "file" THEN Append(fileListWidget, name)
                 ELSE IF content_type = "error"
                      THEN Append(fileListWidget, "Error: " \o name)
                 ELSE IF content_type = "skipped"
                      THEN Append(fileListWidget, "Skipped: " \o name)
                 ELSE fileListWidget
           /\ textEdit' = update_text_edit(file_structure', files_content')
           /\ lastOp' = [op |-> "update", w |-> ev.w, had |-> Len(handled)]
           /\ handled' = Append(handled, ev)
    /\ queue' = Tail(queue)
    /\ UNCHANGED <<walkers, process_thread, copyButton, saveButton, resetButton,
                   progressBar, clipboard, saved, inflightAtReset>>

\* process_finished that also empties the list widget
process_finished_clears_list ==
    /\ queue # <<>>
    /\ Head(queue).sig = "finished"
    /\ copyButton' = TRUE
    /\ saveButton' = TRUE
    /\ resetButton' = TRUE
    /\ progressBar' = "done"
    /\ fileListWidget' = <<>>
    /\ lastOp' = [op |-> "finished", w |-> Head(queue).w, had |-> Len(handled)]
    /\ queue' = Tail(queue)
    /\ UNCHANGED <<walkers, files_content, file_structure, process_thread, textEdit,
                   clipboard, saved, handled, inflightAtReset>>

\* FileDropWidget.process_finished, run for the oldest queued finished signal
process_finished ==
    /\ queue # <<>>
    /\ Head(queue).sig = "finished"
    /\ copyButton' = TRUE
    /\ saveButton' = TRUE
    /\ resetButton' = TRUE
    /\ progressBar' = "done"
    /\ lastOp' = [op |-> "finished", w |-> Head(queue).w, had |-> Len(handled)]
    /\ queue' = Tail(queue)
    /\ UNCHANGED <<walkers, files_content, file_structure, process_thread, textEdit,
                   fileListWidget, clipboard, saved, handled, inflightAtReset>>

\* FileDropWidget.copyContent, on a click of the enabled copy button
copyContent ==
    /\ copyButton
    /\ clipboard' = textEdit
    /\ lastOp' = [op |-> "copy", w |-> 0, had |-> Len(handled)]
    /\ UNCHANGED <<walkers, queue, files_content, file_structure, process_thread,
                   textEdit, fileListWidget, copyButton, saveButton, resetButton,
                   progressBar, saved, handled, inflightAtReset>>

\* FileDropWidget.saveContent, on a click of the enabled save button;
\* file_name is what the file dialog returns, "" when it is cancelled
saveContent(file_name) ==
    /\ saveButton
    /\ saved' = IF file_name # "" THEN [name |-> file_name, text |-> textEdit]
                ELSE saved
    /\ lastOp' = [op |-> "save", w |-> 0, had |-> Len(handled)]
    /\ UNCHANGED <<walkers, queue, files_content, file_structure, process_thread,
                   textEdit, fileListWidget, copyButton, saveButton, resetButton,
                   progressBar, clipboard, handled, inflightAtReset>>

\* resetContent that also stops the walks: the threads end and their queued
\* signals are dropped
resetContent_stops ==
    /\ resetButton
    /\ files_content' = <<>>
    /\ file_structure' = ""
    /\ textEdit' = ""
    /\ fileListWidget' = <<>>
    /\ lastOp' = [op |-> "reset", w |-> 0, had |-> Len(handled)]
    /\ handled' = <<>>
    /\ inflightAtReset' = Running
    /\ walkers' = [w \in DOMAIN walkers |->
                      IF w \in Running THEN [walkers[w] EXCEPT !.pc = "done"]
                      ELSE walkers[w]]
    /\ queue' = <<>>
    /\ UNCHANGED <<process_thread, copyButton, saveButton, resetButton,
                   progressBar, clipboard, saved>>

\* resetContent that leaves the list widget as it is
resetContent_keeps_list ==
    /\ resetButton
    /\ files_content' = <<>>
    /\ file_structure' = ""
    /\ textEdit' = ""
    /\ lastOp' = [op |-> "reset", w |-> 0, had |-> Len(handled)]
    /\ handled' = <<>>
    /\ inflightAtReset' = Running
    /\ UNCHANGED <<walkers, queue, process_thread, fileListWidget, copyButton,
                   saveButton, resetButton, progressBar, clipboard, saved>>

\* FileDropWidget.resetContent, on a click of the enabled reset button
resetContent ==
    /\ resetButton
    /\ files_content' = <<>>
    /\ file_structure' = ""
    /\ textEdit' = ""
    /\ fileListWidget' = <<>>
    /\ lastOp' = [op |-> "reset", w |-> 0, had |-> Len(handled)]
    /\ handled' = <<>>
    /\ inflightAtReset' = Running
    /\ UNCHANGED <<walkers, queue, process_thread, copyButton, saveButton,
                   resetButton, progressBar, clipboard, saved>>

\* the url lists a drop can carry
UrlLists == UNION {[1..n -> Roots] : n \in 1..MaxUrls}

\* the file names the save dialog can return
SaveNames == {"", "out.txt"}

Next ==
    \/ \E urls \in UrlLists : dropEvent(urls)
    \/ \E w \in DOMAIN walkers : Run(w)
    \/ \E w \in DOMAIN walkers : process_directory(w)
    \/ \E w \in DOMAIN walkers : EmitFinished(w)
    \/ update_content
    \/ process_finished
    \/ copyContent
    \/ \E file_name \in SaveNames : saveContent(file_name)
    \/ resetContent

Spec == Init /\ [][Next]_vars

\* a session with a single walk: one path is dropped, once
WalkNext ==
    \/ \E path \in Roots : walkers = <<>> /\ dropEvent(<<path>>)
    \/ \E w \in DOMAIN walkers : Run(w)
    \/ \E w \in DOMAIN walkers : process_directory(w)
    \/ \E w \in DOMAIN walkers : EmitFinished(w)
    \/ update_content
    \/ process_finished
    \/ copyContent
    \/ \E file_name \in SaveNames : saveContent(file_name)
    \/ resetContent

WalkSpec == Init /\ [][WalkNext]_vars

\* the sessions of concurrent walks, without the two export actions:
\* copyContent and saveContent write only clipboard and saved, which no
\* other action reads
SessionNext ==
    \/ \E urls \in UrlLists : dropEvent(urls)
    \/ \E w \in DOMAIN walkers : Run(w)
    \/ \E w \in DOMAIN walkers : process_directory(w)
    \/ \E w \in DOMAIN walkers : EmitFinished(w)
    \/ update_content
    \/ process_finished
    \/ resetContent

SessionSpec == Init /\ [][SessionNext]_vars

\* the sessions of walks dropped one path at a time, each when the walk
\* before it has ended and its signals are handled, with the two export
\* actions and without reset
ExportNext ==
    \/ \E path \in Roots : Running = {} /\ queue = <<>> /\ dropEvent(<<path>>)
    \/ \E w \in DOMAIN walkers : Run(w)
    \/ \E w \in DOMAIN walkers : process_directory(w)
    \/ \E w \in DOMAIN walkers : EmitFinished(w)
    \/ update_content
    \/ process_finished
    \/ copyContent
    \/ \E file_name \in SaveNames : saveContent(file_name)

ExportSpec == Init /\ [][ExportNext]_vars

\* a session with a single walk, of one of the trees under /t
TreeNext ==
    \/ \E path \in TreeRoots : walkers = <<>> /\ dropEvent(<<path>>)
    \/ \E w \in DOMAIN walkers : Run(w)
    \/ \E w \in DOMAIN walkers : process_directory(w)
    \/ \E w \in DOMAIN walkers : EmitFinished(w)
    \/ update_content
    \/ process_finished

TreeSpec == Init /\ [][TreeNext]_vars

-----------------------------------------------------------------------------
(* Vocabulary of the properties *)

\* the regular files of the file system
FilePaths ==
    {p \in UNION {{join(d, scandir(d)[i]) : i \in 1..Len(scandir(d))} : d \in DirPaths} :
        ~is_dir(p)} \cup {p_solo}

\* the regular files below a directory, at any depth
FilesUnder(root) ==
    {f \in FilePaths : Len(f) > Len(root) /\ SubSeq(f, 1, Len(root)) = root}

\* the per-file signals a walker has emitted, in order
Outcomes(w) ==
    SelectSeq(walkers[w].out,
              LAMBDA ev : ev.sig = "update" /\ ev.type \in {"file", "skipped", "error"})

\* the structure signals a walker has emitted
Structures(w) ==
    SelectSeq(walkers[w].out, LAMBDA ev : ev.sig = "update" /\ ev.type = "structure")

\* the walker has emitted its completion signal
Completed(w) == \E i \in DOMAIN walkers[w].out : walkers[w].out[i].sig = "finished"

\* the thread of the walker has ended
Ended(w) == walkers[w].pc \in {"done", "raised"}

\* the walker has left process_directory (or process_file, for a file root)
Walked(w) == walkers[w].pc \in {"finish", "done"}

\* the name ends, ignoring case, with an extension of the skip-set that
\* follows at least one character other than a dot
HasSkipExtension(name) ==
    \E e \in skip_extensions :
        /\ Len(name) > Len(e)
        /\ \A k \in 1..Len(e) :
              LowerChar(name[Len(name) - Len(e) + k]) = e[k]
        /\ \E k \in 1..(Len(name) - Len(e)) : name[k] # "."

AllEnabled == copyButton /\ saveButton /\ resetButton
AllDisabled == ~copyButton /\ ~saveButton /\ ~resetButton

-----------------------------------------------------------------------------
(* Properties *)

\* C1: every started walk, of a directory or of a single regular file, runs
\* to its completion signal: a walker whose thread has ended has emitted the
\* signal (one that ended without it never will), and once process_finished
\* has handled the signal the copy, save and reset buttons are enabled.
C1_EveryWalkCompletes ==
    /\ \A w \in DOMAIN walkers : Ended(w) => Completed(w)
    /\ lastOp.op = "finished" => AllEnabled

\* C2: the walk of a single file emits one structure event carrying the
\* file's base name, then exactly one file, skipped or error event, for that
\* file, and no other per-file event.
C2_SingleFileWalk ==
    \A w \in DOMAIN walkers :
        (~is_dir(walkers[w].path) /\ Ended(w)) =>
            /\ Structures(w) =
                  <<UpdateSignal(w, "structure", Str(basename(walkers[w].path)),
                                 "structure")>>
            /\ Len(Outcomes(w)) = 1
            /\ Outcomes(w)[1].name = Str(basename(walkers[w].path))
            /\ walkers[w].visited = <<walkers[w].path>>


\* C3: a walk of a directory holding at most max_files files visits every
\* file below the directory exactly once, whatever its depth.
C3_VisitsEveryFileOnce ==
    \A w \in DOMAIN walkers :
        LET self == walkers[w]
        IN  (is_dir(self.path) /\ Cardinality(FilesUnder(self.path)) <= max_files
                /\ Walked(w)) =>
                /\ \A f \in FilesUnder(self.path) :
                      Cardinality({i \in DOMAIN self.visited : self.visited[i] = f}) = 1
                /\ \A i \in DOMAIN self.visited : self.visited[i] \in FilesUnder(self.path)

\* a finished walk of a small directory has visited a file deeper than max_depth
C3_Witness ==
    \E w \in DOMAIN walkers :
        LET self == walkers[w]
        IN  /\ is_dir(self.path) /\ Walked(w)
            /\ Cardinality(FilesUnder(self.path)) <= max_files
            /\ \E i \in DOMAIN self.visited :
                  Len(self.visited[i]) - Len(self.path) > max_depth

\* C4: a walk of a directory holding more than max_files files visits exactly
\* max_files files and stops at once: the directory of the last visited file
\* is the last one os.walk is asked for.
C4_StopsAtLimit ==
    \A w \in DOMAIN walkers :
        LET self == walkers[w]
        IN  (is_dir(self.path) /\ Cardinality(FilesUnder(self.path)) > max_files
                /\ Walked(w)) =>
                /\ Len(self.visited) = max_files
                /\ walk(self.path)[self.di].root = dirname(self.visited[max_files])

\* C5: a file whose extension is in the skip-set, ignoring case, yields
\* exactly one skipped record with the fixed message and is never opened; any
\* other file yields no skipped record; each visited file has one outcome.
C5_SkipSetNeverOpened ==
    \A w \in DOMAIN walkers :
        LET self == walkers[w]
        IN  /\ Len(Outcomes(w)) = Len(self.visited)
            /\ \A i \in DOMAIN self.visited :
                  LET f  == self.visited[i]
                      ev == Outcomes(w)[i]
                  IN  /\ ev.name = Str(basename(f))
                      /\ HasSkipExtension(basename(f)) =>
                            /\ ev.type = "skipped"
                            /\ ev.content = SKIP_MESSAGE
                            /\ \A k \in DOMAIN self.opened : self.opened[k] # f
                      /\ ~HasSkipExtension(basename(f)) =>
                            /\ ev.type # "skipped"
                            /\ \E k \in DOMAIN self.opened : self.opened[k] = f

\* a file with an upper-case skip extension was skipped and not opened
C5_Witness ==
    \E w \in DOMAIN walkers :
        \E i \in DOMAIN walkers[w].visited :
            /\ basename(walkers[w].visited[i]) = n_logo
            /\ Len(Outcomes(w)) >= i
            /\ Outcomes(w)[i].type = "skipped"
            /\ walkers[w].opened = <<>>

\* C6: a file that cannot be read yields exactly one error record, whose
\* message embeds the path and the error text, and the walk goes on: the
\* walk of a directory never raises, processes every file up to the limit
\* and ends with its completion signal; every visited file has exactly one
\* outcome event.
C6_ReadFailureIsOneErrorRecord ==
    \A w \in DOMAIN walkers :
        LET self  == walkers[w]
            total == Cardinality(FilesUnder(self.path))
        IN  /\ Len(Outcomes(w)) = Len(self.visited)
            /\ \A i \in DOMAIN self.visited :
                  LET f  == self.visited[i]
                      ev == Outcomes(w)[i]
                  IN  /\ ev.name = Str(basename(f))
                      /\ (ev.type = "error") <=>
                            (~HasSkipExtension(basename(f)) /\ ~read(f).ok)
                      /\ ev.type = "error" =>
                            ev.content = "Error reading " \o PathStr(f) \o ": "
                                            \o read(f).text
            /\ is_dir(self.path) => self.pc # "raised"
            /\ (is_dir(self.path) /\ Walked(w)) =>
                  Len(self.visited) = IF total <= max_files THEN total ELSE max_files
            /\ self.pc = "done" =>
                  self.out[Len(self.out)] = FinishedSignal(w)

\* a completed walk reported a read failure and then the content of a later file
C6_Witness ==
    \E w \in DOMAIN walkers :
        /\ walkers[w].pc = "done"
        /\ \E i, j \in DOMAIN Outcomes(w) :
              /\ i < j
              /\ Outcomes(w)[i].type = "error"
              /\ Outcomes(w)[j].type = "file"


\* C7: while some started walker has not yet signalled completion, the copy,
\* save and reset buttons are disabled.
C7_DisabledWhileRunning == Running # {} => AllDisabled

\* C8: a reset does not stop a walk in flight: resetContent leaves every
\* walker and every queued signal as they are, and a signal of a walker that
\* was running at the reset is applied when it is handled, leaving the file
\* records, the structure text or the visible list non-empty.
C8_ResetDoesNotStopWalk ==
    [][ /\ resetContent => (walkers' = walkers /\ queue' = queue)
        /\ (update_content /\ Head(queue).w \in inflightAtReset) =>
              (files_content' # <<>> \/ file_structure' # "" \/ fileListWidget' # <<>>)
      ]_vars

\* after a reset made while a walk was running, a file event of that walk
\* has been handled and the file records are non-empty again
C8_Witness ==
    /\ lastOp.op = "update"
    /\ lastOp.w \in inflightAtReset
    /\ files_content # <<>>
    /\ handled[Len(handled)].type = "file"

\* C9: right after resetContent the file records, the structure text, the
\* text view and the visible list are all empty, however many records had
\* been accumulated.
C9_ResetClearsAll ==
    lastOp.op = "reset" =>
        /\ files_content = <<>>
        /\ file_structure = ""
        /\ textEdit = ""
        /\ fileListWidget = <<>>

\* a reset has just cleared a session that had handled several events
C9_Witness == lastOp.op = "reset" /\ lastOp.had >= 3

\* the block render writes for one (name, content) record
Block(rec) ==
    Repeat("=", 50) \o "\n" \o NAME_LABEL \o rec[1] \o "\n"
        \o Repeat("-", 50) \o "\n" \o rec[2] \o "\n\n"

\* the blocks of the records, in order
RECURSIVE Blocks(_)
Blocks(fc) == IF fc = <<>> THEN "" ELSE Block(Head(fc)) \o Blocks(Tail(fc))

\* render(structureText, fileRecords)
render(structure, fc) ==
    STRUCTURE_LABEL \o "\n" \o structure \o "\n\n" \o CONTENT_LABEL \o "\n" \o Blocks(fc)

\* C10: after every handled update signal, of any kind, the text view is
\* render(file_structure, files_content): the header with the structure text,
\* then one delimited block per accumulated record in arrival order.
C10_TextIsRender ==
    lastOp.op = "update" => textEdit = render(file_structure, files_content)

\* an update has been handled with a tree and at least two file records
C10_Witness ==
    /\ lastOp.op = "update"
    /\ Len(files_content) >= 2
    /\ file_structure # ""

\* C11: files_content accumulates file records only.  Handling a skipped or
\* error signal leaves files_content as it is, so the text view is the
\* render of the records held before, and appends the one entry
\* "Skipped: name" or "Error: name" to the visible list; handling a file
\* signal appends (name, content) to files_content and name to the list.
C11_OnlyFileRecordsAccumulate ==
    [][ update_content =>
          LET ev == Head(queue)
          IN  /\ ev.type \in {"skipped", "error"} =>
                    /\ files_content' = files_content
                    /\ textEdit' = render(file_structure, files_content)
                    /\ fileListWidget' =
                          Append(fileListWidget,
                                 (IF ev.type = "skipped" THEN "Skipped: " ELSE "Error: ")
                                     \o ev.name)
              /\ ev.type = "file" =>
                    /\ files_content' = Append(files_content, <<ev.name, ev.content>>)
                    /\ fileListWidget' = Append(fileListWidget, ev.name)
              /\ \A i \in DOMAIN files_content' :
                    \E j \in DOMAIN handled' :
                        /\ handled'[j].type = "file"
                        /\ files_content'[i] = <<handled'[j].name, handled'[j].content>>
      ]_vars

\* a skipped and an error signal have been handled after a file record was
\* accumulated, and only the file record is held
C11_Witness ==
    /\ lastOp.op = "update"
    /\ Len(files_content) = 1
    /\ \E i, j, k \in DOMAIN handled :
          /\ i < j /\ j < k
          /\ handled[i].type = "file"
          /\ handled[j].type = "skipped"
          /\ handled[k].type = "error"

\* s is made of the last elements of t, in the same order
IsSuffix(s, t) ==
    /\ Len(s) <= Len(t)
    /\ SubSeq(t, Len(t) - Len(s) + 1, Len(t)) = s

\* C12: the events of one walk are ordered.  A walker that has ended has
\* emitted exactly one structure signal, as its first signal, and its
\* completion signal, as its last; and the GUI takes the signals of a walker
\* in the order of emission: the signals still queued are the last ones
\* emitted, and those handled since the last reset precede them, in order.
C12_EventsOrdered ==
    \A w \in DOMAIN walkers :
        LET out     == walkers[w].out
            updates == SelectSeq(out, LAMBDA ev : ev.sig = "update")
            pending == SelectSeq(queue, LAMBDA ev : ev.w = w)
            taken   == SelectSeq(handled, LAMBDA ev : ev.w = w)
        IN  /\ Len(Structures(w)) <= 1
            /\ out # <<>> => out[1].type = "structure"
            /\ \A i \in DOMAIN out : out[i].sig = "finished" => i = Len(out)
            /\ Ended(w) =>
                  /\ Len(Structures(w)) = 1
                  /\ out[Len(out)] = FinishedSignal(w)
            /\ IsSuffix(pending, out)
            /\ IsSuffix(taken \o SelectSeq(pending, LAMBDA ev : ev.sig = "update"),
                        updates)

\* ---- the tree text ----

\* every entry below a directory, however deep: each entry of the listing
\* followed, when it is a directory, by the entries below it
RECURSIVE PreOrder(_)
RECURSIVE PreOrderFrom(_, _)
PreOrder(dir) == PreOrderFrom(dir, 1)

PreOrderFrom(dir, i) ==
    IF i > Len(scandir(dir)) THEN <<>>
    ELSE LET e == join(dir, scandir(dir)[i])
         IN  <<e>> \o (IF is_dir(e) THEN PreOrder(e) ELSE <<>>) \o PreOrderFrom(dir, i + 1)

\* the depth of an entry below the root: 1 for the entries of the root
Depth(e, root) == Len(e) - Len(root)

\* the entry is the final one of the listing of its parent
IsLast(e) == scandir(dirname(e))[Len(scandir(dirname(e)))] = basename(e)

\* the indentation of an entry: one unit per ancestor below the root, from
\* the ancestor at depth d down to the parent
RECURSIVE Indent(_, _, _)
Indent(e, root, d) ==
    IF d >= Depth(e, root) THEN ""
    ELSE (IF IsLast(SubSeq(e, 1, Len(root) + d)) THEN "    " ELSE PIPE)
             \o Indent(e, root, d + 1)

\* the line of an entry in the tree text
ExpectedLine(e, root) ==
    Indent(e, root, 1) \o (IF IsLast(e) THEN ELBOW ELSE TEE) \o Str(basename(e))

\* how often a line occurs among lines
Count(lines, l) == Cardinality({i \in DOMAIN lines : lines[i] = l})

\* the walker was given a directory and has emitted its tree text
EmittedTree(w) == is_dir(walkers[w].path) /\ Len(walkers[w].out) > 0

(* C13: get_file_structure starts its depth counter at max_depth, and the    *)
(* tree text a walker emits holds the line of every entry whose depth below  *)
(* the root is at most max_depth exactly once, and no line of a deeper       *)
(* entry, and nothing else after the line of the root.                       *)
C13_DepthBudget ==
    \A w \in DOMAIN walkers :
        EmittedTree(w) =>
            LET root == walkers[w].path
                g    == get_file_structure(root)
                all  == PreOrder(root)
                body == Tail(g.lines)
            IN  /\ walkers[w].out[1] = UpdateSignal(w, "structure", g.text, "structure")
                /\ g.entered[1] = <<root, max_depth>>
                /\ \A i \in DOMAIN all :
                      Count(body, ExpectedLine(all[i], root))
                          = IF Depth(all[i], root) <= max_depth THEN 1 ELSE 0
                /\ Len(body)
                      = Cardinality({i \in DOMAIN all : Depth(all[i], root) <= max_depth})

\* a walker has emitted the text of a tree that has an entry at depth
\* max_depth and entries below it
C13_Witness ==
    \E w \in DOMAIN walkers :
        /\ EmittedTree(w)
        /\ \E i, j \in DOMAIN PreOrder(walkers[w].path) :
              /\ Depth(PreOrder(walkers[w].path)[i], walkers[w].path) = max_depth
              /\ Depth(PreOrder(walkers[w].path)[j], walkers[w].path) > max_depth

\* ---- the depth counter against a by-value budget ----

\* the tree lines when the budget is a parameter passed by value: a directory
\* is listed while remainingDepth is positive and its subdirectories get
\* remainingDepth - 1
RECURSIVE by_value(_, _, _)
RECURSIVE by_value_entries(_, _, _, _)
by_value(path, prefix, remainingDepth) ==
    IF remainingDepth <= 0 THEN <<>>
    ELSE by_value_entries(path, prefix, 1, remainingDepth)

by_value_entries(path, prefix, i, remainingDepth) ==
    IF i > Len(scandir(path)) THEN <<>>
    ELSE LET entry   == scandir(path)[i]
             is_last == (i = Len(scandir(path)))
             line    == prefix \o (IF is_last THEN ELBOW ELSE TEE) \o Str(entry)
             below   == IF is_dir(join(path, entry)) /\ remainingDepth - 1 > 0
                        THEN by_value(join(path, entry),
                                      prefix \o (IF is_last THEN "    " ELSE PIPE),
                                      remainingDepth - 1)
                        ELSE <<>>
         IN  <<line>> \o below \o by_value_entries(path, prefix, i + 1, remainingDepth)

by_value_structure(root) ==
    Join("\n", <<Str(basename(root))>> \o by_value(root, "", max_depth))

\* the directory comes, in the listing of its parent, after a sibling
\* directory that has entries of its own
LateSibling(dir) ==
    LET contents == scandir(dirname(dir))
    IN  \E i, j \in DOMAIN contents :
            /\ i < j
            /\ contents[j] = basename(dir)
            /\ is_dir(join(dirname(dir), contents[i]))
            /\ scandir(join(dirname(dir), contents[i])) # <<>>

\* the calls of print_directory, below the root, that the rendering of the
\* tree of a walker makes for late siblings
LateCalls(w) ==
    LET entered == get_file_structure(walkers[w].path).entered
    IN  {i \in DOMAIN entered : i > 1 /\ LateSibling(entered[i][1])}

(* C14, as the specification states it: a subdirectory processed after a     *)
(* deeper sibling subtree is entered with a remaining budget other than the  *)
(* by-value one, max_depth less its depth, and the text differs from the     *)
(* by-value rendering.                                                       *)
C14_BudgetLeaks ==
    \A w \in DOMAIN walkers :
        EmittedTree(w) /\ LateCalls(w) # {} =>
            LET root == walkers[w].path
                g    == get_file_structure(root)
            IN  /\ \A i \in LateCalls(w) :
                      g.entered[i][2] # max_depth - Depth(g.entered[i][1], root)
                /\ walkers[w].out[1].content # by_value_structure(root)

(* C14, amended: the counter is decremented before and incremented after     *)
(* each recursive call, so every directory is entered with the by-value      *)
(* budget, max_depth less its depth, and the emitted text is the by-value    *)
(* rendering.                                                                *)
C14_BudgetIsByValue ==
    \A w \in DOMAIN walkers :
        EmittedTree(w) =>
            LET root == walkers[w].path
                g    == get_file_structure(root)
            IN  /\ \A i \in DOMAIN g.entered :
                      g.entered[i][2] = max_depth - Depth(g.entered[i][1], root)
                /\ walkers[w].out[1].content = by_value_structure(root)

\* a walker has emitted a tree in which a late sibling was entered and the
\* budget cut the listing short
C14_Witness ==
    \E w \in DOMAIN walkers :
        /\ EmittedTree(w)
        /\ LateCalls(w) # {}
        /\ \E i \in DOMAIN PreOrder(walkers[w].path) :
              Depth(PreOrder(walkers[w].path)[i], walkers[w].path) > max_depth

\* ---- the lines of the tree text ----

\* the entries the tree text lists, in listing order
Listed(root) == SelectSeq(PreOrder(root), LAMBDA e : Depth(e, root) <= max_depth)

\* the tree text is the base name of the root and then the line of every
\* listed entry, in listing order
LinePerEntry(w) ==
    LET root   == walkers[w].path
        listed == Listed(root)
    IN  walkers[w].out[1].content
            = Join("\n", <<Str(basename(root))>>
                             \o [i \in 1..Len(listed) |-> ExpectedLine(listed[i], root)])

\* the tree text is the base name of the root and the line of its one child
TwoLines(w) ==
    LET root == walkers[w].path
    IN  walkers[w].out[1].content
            = Str(basename(root)) \o "\n" \o ELBOW \o Str(scandir(root)[1])

(* C15, as the specification states it: the tree text has one line per       *)
(* listed entry, in listing order, made of the indentation of its ancestors, *)
(* the glyph of its place among its siblings and its name; and a root with   *)
(* exactly one child yields exactly two lines.                               *)
C15_OneChildTwoLines ==
    \A w \in DOMAIN walkers :
        EmittedTree(w) =>
            /\ LinePerEntry(w)
            /\ Len(scandir(walkers[w].path)) = 1 => TwoLines(w)

(* C15, amended: the tree text has one line per listed entry, in listing     *)
(* order, made of the indentation of its ancestors, the glyph of its place   *)
(* among its siblings and its name; and a root whose one child is a file or  *)
(* a directory without entries yields exactly two lines.                     *)
C15_LinePerEntry ==
    \A w \in DOMAIN walkers :
        EmittedTree(w) =>
            /\ LinePerEntry(w)
            /\ ( /\ Len(scandir(walkers[w].path)) = 1
                 /\ scandir(join(walkers[w].path, scandir(walkers[w].path)[1])) = <<>> )
                   => TwoLines(w)

\* a walker has emitted the text of a tree that lists an entry below two
\* ancestors, one the last of its siblings and one not, and the root has a
\* first and a last entry
C15_Witness ==
    \E w \in DOMAIN walkers :
        /\ EmittedTree(w)
        /\ Len(scandir(walkers[w].path)) > 1
        /\ \E i \in DOMAIN Listed(walkers[w].path) :
              LET e    == Listed(walkers[w].path)[i]
                  root == walkers[w].path
              IN  \E c, d \in 1..(Depth(e, root) - 1) :
                      /\ IsLast(SubSeq(e, 1, Len(root) + c))
                      /\ ~IsLast(SubSeq(e, 1, Len(root) + d))

\* a walker has emitted the text of a tree whose root has one child, a file
C15_WitnessOneChild ==
    \E w \in DOMAIN walkers :
        /\ EmittedTree(w)
        /\ Len(scandir(walkers[w].path)) = 1
        /\ ~is_dir(join(walkers[w].path, scandir(walkers[w].path)[1]))

\* ---- the session state ----

\* the file events among the events handled since the last reset
FileEvents == SelectSeq(handled, LAMBDA ev : ev.type = "file")

\* the file, skipped and error events among them
PerFileEvents == SelectSeq(handled, LAMBDA ev : ev.type \in {"file", "skipped", "error"})

\* the places of the structure events among them
StructureAt == {i \in DOMAIN handled : handled[i].type = "structure"}

\* the content of the most recently handled structure event
LastStructure ==
    IF StructureAt = {} THEN ""
    ELSE handled[CHOOSE i \in StructureAt : \A j \in StructureAt : j <= i].content

(* C16: files_content is the sequence of the file events handled since the   *)
(* last reset, in arrival order and whichever walk sent them; the structure  *)
(* text is that of the most recently handled structure event since the last  *)
(* reset; and the rendered text shows exactly these, so a drop clears        *)
(* nothing.                                                                  *)
C16_SessionAccumulates ==
    /\ files_content = [i \in 1..Len(FileEvents) |->
                            <<FileEvents[i].name, FileEvents[i].content>>]
    /\ file_structure = LastStructure
    /\ handled # <<>> => textEdit = render(LastStructure, files_content)
    /\ lastOp.op = "drop" /\ handled # <<>> => textEdit # ""

\* two walks were handled without a reset between them: the text holds file
\* blocks of both under the tree of the one whose structure came last
C16_Witness ==
    /\ \E a, b \in DOMAIN FileEvents : FileEvents[a].w # FileEvents[b].w
    /\ Cardinality(StructureAt) = 2
    /\ \E i, j \in StructureAt : handled[i].content # handled[j].content
    /\ textEdit = render(LastStructure, files_content)

\* the entry the list widget shows for a per-file event
ListEntry(ev) ==
    IF ev.type = "skipped" THEN "Skipped: " \o ev.name
    ELSE IF ev.type = "error" THEN "Error: " \o ev.name
    ELSE ev.name

\* the places of the file events among the per-file events
FileAt == {i \in DOMAIN PerFileEvents : PerFileEvents[i].type = "file"}

(* C17: the list widget has one entry per file, skipped or error event       *)
(* handled since the last reset, in arrival order; the entries of the file   *)
(* events, which carry no prefix, are in order the names in files_content;   *)
(* so files_content is never longer than the list.                           *)
C17_ListMatchesEvents ==
    /\ fileListWidget = [i \in 1..Len(PerFileEvents) |-> ListEntry(PerFileEvents[i])]
    /\ Cardinality(FileAt) = Len(files_content)
    /\ \A i \in FileAt :
          fileListWidget[i] = files_content[Cardinality({j \in FileAt : j <= i})][1]
    /\ Len(files_content) <= Len(fileListWidget)

\* the list holds a skipped and an error entry between two file entries
C17_Witness ==
    /\ Len(files_content) >= 2
    /\ Len(files_content) < Len(fileListWidget)
    /\ \E i, j, k, l \in DOMAIN PerFileEvents :
          /\ i < j /\ i < k /\ j < l /\ k < l
          /\ PerFileEvents[i].type = "file"
          /\ PerFileEvents[j].type = "skipped"
          /\ PerFileEvents[k].type = "error"
          /\ PerFileEvents[l].type = "file"

(* C18: handling a structure event changes only the structure text and the   *)
(* rendered text; handling a file, skipped or error event leaves the         *)
(* structure text unchanged; process_finished, copyContent and saveContent   *)
(* leave files_content, the structure text, the rendered text and the list   *)
(* unchanged.                                                                *)
C18_NarrowFrame ==
    [][ /\ (update_content /\ Head(queue).type = "structure") =>
              UNCHANGED <<files_content, fileListWidget, copyButton, saveButton,
                          resetButton, progressBar, clipboard, saved, process_thread>>
        /\ (update_content /\ Head(queue).type \in {"file", "skipped", "error"}) =>
              UNCHANGED file_structure
        /\ (process_finished \/ copyContent
                \/ \E file_name \in SaveNames : saveContent(file_name)) =>
              UNCHANGED <<files_content, file_structure, textEdit, fileListWidget>>
      ]_vars

\* a structure event was handled while records and list entries of an
\* earlier walk were held, after the text had been copied and saved
C18_Witness ==
    /\ lastOp.op = "update"
    /\ handled[Len(handled)].type = "structure"
    /\ files_content # <<>>
    /\ Len(fileListWidget) > Len(files_content)
    /\ clipboard # ""
    /\ saved.name # ""

====
